---- MODULE Spec2Model ----
(***************************************************************************)
(* A model of src/app.py: the /evaluate handler (evaluate_patient), its    *)
(* report formatter (format_report) and the /export-pdf handler            *)
(* (export_pdf).                                                           *)
(*                                                                         *)
(* Both handlers are "async def" without any await, so a handler runs to   *)
(* completion on the event loop before another one starts: the model has   *)
(* one handler in progress at a time, and pc is its position.              *)
(*                                                                         *)
(* Values decoded by json.loads are tagged records:                        *)
(*   [t |-> "str", s], [t |-> "num", n], [t |-> "bool", b], [t |-> "null"],*)
(*   [t |-> "list", items] and [t |-> "map", items], a dict being the      *)
(*   sequence of its <<key, value>> pairs in insertion order (Python dicts *)
(*   iterate in insertion order, json.loads inserts in document order).    *)
(***************************************************************************)
EXTENDS Integers, Sequences, FiniteSets, TLC

VARIABLES
    pc,          \* position of the handler in progress, "idle" when none is
    data,        \* the request body: an IntakeForm or an EvaluationResult
    prompt,      \* evaluate_patient: the prompt text
    raw,         \* evaluate_patient: what the provider call produced
    evaluation,  \* evaluate_patient: the local variable `evaluation`
    calls,       \* calls of client.chat.completions.create in this request
    trail,       \* the steps the handler in progress has executed, in order
    raisedAt,    \* the step whose exception reached the except clause
    outcome,     \* what the caller receives: a response or a failure
    pydantic,    \* the installed pydantic major version (not pinned by the repo)
    tmp_file,    \* export_pdf: the local variable `tmp_file`
    flowables,   \* export_pdf: the local list `flowables`
    disk,        \* names of the temporary files that exist on disk
    handles      \* names of the temporary files whose handle is still open

vars == <<pc, data, prompt, raw, evaluation, calls, trail, raisedAt, outcome,
          pydantic, tmp_file, flowables, disk, handles>>

None == [t |-> "null"]

PStr(s) == [t |-> "str", s |-> s]

PNum(n) == [t |-> "num", n |-> n]

PBool(b) == [t |-> "bool", b |-> b]

PList(items) == [t |-> "list", items |-> items]

PDict(items) == [t |-> "map", items |-> items]

EmptyDict == PDict(<<>>)

EmptyList == PList(<<>>)

\* Bounds of the model.
MaxFlags == 2

MaxCalls == 2

MaxTmp == 2

(***************************************************************************)
(* Python's dict operations on the pair-sequence representation.           *)
(***************************************************************************)
Keys(d) == {d.items[i][1] : i \in 1..Len(d.items)}

HasKey(d, k) == k \in Keys(d)

Lookup(d, k) == (CHOOSE i \in 1..Len(d.items) : d.items[i][1] = k)

\* d.get(k, default)
DictGet(d, k, default) ==
    IF HasKey(d, k) THEN d.items[Lookup(d, k)][2] ELSE default

\* d[k] = v: an existing key keeps its position, a new key goes last
DictSet(d, k, v) ==
    IF HasKey(d, k)
    THEN PDict([d.items EXCEPT ![Lookup(d, k)] = <<k, v>>])
    ELSE PDict(Append(d.items, <<k, v>>))

(***************************************************************************)
(* str(v) and repr(v) of a decoded value, as CPython renders them.         *)
(***************************************************************************)
RECURSIVE PyRepr(_)
RECURSIVE JoinRepr(_, _)
RECURSIVE JoinPairs(_, _)

JoinRepr(items, i) ==
    IF i > Len(items) THEN ""
    ELSE (IF i > 1 THEN ", " ELSE "") \o PyRepr(items[i]) \o JoinRepr(items, i + 1)

JoinPairs(items, i) ==
    IF i > Len(items) THEN ""
    ELSE (IF i > 1 THEN ", " ELSE "") \o "'" \o items[i][1] \o "': "
         \o PyRepr(items[i][2]) \o JoinPairs(items, i + 1)

PyRepr(v) ==
    CASE v.t = "str"  -> "'" \o v.s \o "'"
      [] v.t = "num"  -> ToString(v.n)
      [] v.t = "bool" -> IF v.b THEN "True" ELSE "False"
      [] v.t = "null" -> "None"
      [] v.t = "list" -> "[" \o JoinRepr(v.items, 1) \o "]"
      [] v.t = "map"  -> "{" \o JoinPairs(v.items, 1) \o "}"

\* str(v): a str is itself, anything else is its repr
PyStr(v) == IF v.t = "str" THEN v.s ELSE PyRepr(v)

\* type(v).__name__
PyTypeName(v) ==
    CASE v.t = "str"  -> "str"
      [] v.t = "num"  -> "int"
      [] v.t = "bool" -> "bool"
      [] v.t = "null" -> "NoneType"
      [] v.t = "list" -> "list"
      [] v.t = "map"  -> "dict"

\* The characters of the strings the model iterates over (a Python str
\* iterates character by character).
Chars(s) ==
    CASE s = ""   -> <<>>
      [] s = "ok" -> <<"o", "k">>
      [] OTHER    -> <<s>>

Ok(v) == [ok |-> TRUE, value |-> v]

Raises(type, msg) == [ok |-> FALSE, exc |-> [type |-> type, msg |-> msg]]

\* iter(v), as the for loop and the list comprehensions of format_report use it
PyIter(v) ==
    CASE v.t = "list" -> Ok(v.items)
      [] v.t = "map"  -> Ok([i \in 1..Len(v.items) |-> PStr(v.items[i][1])])
      [] v.t = "str"  -> Ok([i \in 1..Len(Chars(v.s)) |-> PStr(Chars(v.s)[i])])
      [] OTHER        -> Raises("TypeError",
                                "'" \o PyTypeName(v) \o "' object is not iterable")

\* v.items(): only a dict has it
PyItems(v) ==
    IF v.t = "map" THEN Ok(v.items)
    ELSE Raises("AttributeError",
                "'" \o PyTypeName(v) \o "' object has no attribute 'items'")

\* v.get(k, default): only a dict has it
PyGet(v, k, default) ==
    IF v.t = "map" THEN Ok(DictGet(v, k, default))
    ELSE Raises("AttributeError",
                "'" \o PyTypeName(v) \o "' object has no attribute 'get'")

\* `x or y`: None, "", 0, False and empty containers are falsy
Truthy(v) ==
    CASE v.t = "null" -> FALSE
      [] v.t = "str"  -> v.s # ""
      [] v.t = "num"  -> v.n # 0
      [] v.t = "bool" -> v.b
      [] OTHER        -> v.items # <<>>

(***************************************************************************)
(* format_report (lines 64-112).  SIREN stands for the character U+1F6A8   *)
(* of lines 109, 183 and 215.  The text built starts with "\n    " and     *)
(* ends with "\n    " around non-blank characters, so report.strip()       *)
(* removes exactly those two pieces: they are left out here.               *)
(***************************************************************************)
SIREN == "(!)"

BAR == "======================================"

RULE == "--------------------------------------"

ReportHeader(ev, patient) ==
    BAR \o "\n              Patient Evaluation Report\n    " \o BAR
    \o "\n\n    Patient: " \o PyStr(patient.name)
    \o "\n    Age: " \o PyStr(patient.age)
    \o "\n    Gender: "
    \o PyStr(IF Truthy(patient.gender) THEN patient.gender ELSE PStr("Not specified"))
    \o "\n\n    " \o RULE \o "\n    Chief Complaint\n    " \o RULE \o "\n    "
    \o PyStr(DictGet(ev, "chief_complaint", PStr("N/A")))
    \o "\n\n    " \o RULE \o "\n    History Summary\n    " \o RULE \o "\n    "
    \o PyStr(DictGet(ev, "history_summary", PStr("N/A")))
    \o "\n\n    " \o RULE \o "\n    Risk Flags\n    " \o RULE \o "\n    "

\* the line of a flag written with {value!r}
FlagLineRepr(key, value) == "- " \o PyStr(key) \o ": " \o PyRepr(value) \o "\n"

\* line 90: one line of the Risk Flags section
FlagLine(key, value) == "- " \o PyStr(key) \o ": " \o PyStr(value) \o "\n"

\* lines 94 and 97: one line of a list section
ItemLine(item) == "- " \o PyStr(item) \o "\n"

RECURSIVE FlagLines(_, _)
FlagLines(items, i) ==
    IF i > Len(items) THEN ""
    ELSE FlagLine(PStr(items[i][1]), items[i][2]) \o FlagLines(items, i + 1)

RECURSIVE ItemLines(_, _)
ItemLines(items, i) ==
    IF i > Len(items) THEN ""
    ELSE ItemLine(items[i]) \o ItemLines(items, i + 1)

FollowupsHeader ==
    "\n\n" \o RULE \o "\nRecommended Follow-ups\n" \o RULE \o "\n"

DifferentialHeader ==
    "\n\n" \o RULE \o "\nDifferential Considerations\n" \o RULE \o "\n"

ReportFooter(ev) ==
    "\n\n    " \o RULE \o "\n    Patient-Friendly Summary\n    " \o RULE \o "\n    "
    \o PyStr(DictGet(ev, "patient_friendly_summary", PStr("N/A")))
    \o "\n\n    " \o RULE \o "\n    Emergency Guidance\n    " \o RULE \o "\n    "
    \o SIREN \o " " \o PyStr(DictGet(ev, "emergency_guidance", PStr("N/A")))
    \o " " \o SIREN

format_report(ev, patient) ==
    LET flags == PyItems(DictGet(ev, "risk_flags", EmptyDict))
        fups  == PyIter(DictGet(ev, "recommended_followups", EmptyList))
        diffs == PyIter(DictGet(ev, "differential_considerations", EmptyList))
    IN  IF ~flags.ok THEN flags
        ELSE IF ~fups.ok THEN fups
        ELSE IF ~diffs.ok THEN diffs
        ELSE Ok(ReportHeader(ev, patient)
                \o FlagLines(flags.value, 1)
                \o FollowupsHeader \o ItemLines(fups.value, 1)
                \o DifferentialHeader \o ItemLines(diffs.value, 1)
                \o ReportFooter(ev))

(***************************************************************************)
(* The response model (lines 47-55) as FastAPI applies it to the value the *)
(* handler returns (response_model=EvaluationResult, line 115): every      *)
(* field is required; pydantic 1 turns an int or a bool given for a str    *)
(* field into its str(), pydantic 2 rejects it.  The validated body has    *)
(* the eight fields in declaration order.                                  *)
(***************************************************************************)
ResultFields ==
    <<"chief_complaint", "history_summary", "risk_flags", "recommended_followups",
      "differential_considerations", "patient_friendly_summary",
      "emergency_guidance", "formatted_report">>

FieldType(f) ==
    CASE f = "risk_flags" -> "dict"
      [] f \in {"recommended_followups", "differential_considerations"} -> "list"
      [] OTHER -> "str"

Invalid == Raises("ValidationError", "value is not valid")

ValidateStr(v, version) ==
    IF v.t = "str" THEN Ok(v)
    ELSE IF version = "v1" /\ v.t \in {"num", "bool"} THEN Ok(PStr(PyStr(v)))
    ELSE Invalid

ValidateList(v, version) ==
    IF v.t = "list" /\ \A i \in 1..Len(v.items) : ValidateStr(v.items[i], version).ok
    THEN Ok(PList([i \in 1..Len(v.items) |-> ValidateStr(v.items[i], version).value]))
    ELSE Invalid

ValidateDict(v, version) ==
    IF v.t = "map" /\ \A i \in 1..Len(v.items) : ValidateStr(v.items[i][2], version).ok
    THEN Ok(PDict([i \in 1..Len(v.items) |->
                     <<v.items[i][1], ValidateStr(v.items[i][2], version).value>>]))
    ELSE Invalid

ValidateField(ev, f, version) ==
    IF ~HasKey(ev, f) THEN Raises("ValidationError", "field required")
    ELSE CASE FieldType(f) = "str"  -> ValidateStr(DictGet(ev, f, None), version)
           [] FieldType(f) = "list" -> ValidateList(DictGet(ev, f, None), version)
           [] FieldType(f) = "dict" -> ValidateDict(DictGet(ev, f, None), version)

serialize_response(ev, version) ==
    IF \A i \in 1..Len(ResultFields) : ValidateField(ev, ResultFields[i], version).ok
    THEN Ok(PDict([i \in 1..Len(ResultFields) |->
                     <<ResultFields[i], ValidateField(ev, ResultFields[i], version).value>>]))
    ELSE Raises("ResponseValidationError", "Internal Server Error")

(***************************************************************************)
(* The steps of evaluate_patient (lines 116-162) as functions.             *)
(***************************************************************************)
RECURSIVE JoinStrings(_, _)
JoinStrings(items, i) ==
    IF i > Len(items) THEN ""
    ELSE (IF i > 1 THEN ", " ELSE "") \o items[i] \o JoinStrings(items, i + 1)

\* lines 121-140; the fixed instruction text of lines 132-139 is abridged
build_prompt(form) ==
    "You are a medical AI assistant. Analyze the following intake:"
    \o "\nName: " \o PyStr(form.name)
    \o "\nAge: " \o PyStr(form.age)
    \o "\nGender: " \o PyStr(form.gender)
    \o "\nSymptoms: " \o JoinStrings(form.symptoms, 1)
    \o "\nHistory: " \o PyStr(form.history)
    \o "\nMedications: " \o PyStr(form.medications)
    \o "\nLifestyle: " \o PyStr(form.lifestyle)
    \o "\nProvide a structured analysis in JSON with keys: ..."

\* json.loads with the decode error swallowed and an empty object used instead
json_loads_default(content) ==
    IF content = None
    THEN Raises("TypeError",
                "the JSON object must be str, bytes or bytearray, not NoneType")
    ELSE IF ~content.json THEN Ok(EmptyDict)
    ELSE Ok(content.doc)

\* line 149: json.loads of message.content
json_loads(content) ==
    IF content = None
    THEN Raises("TypeError",
                "the JSON object must be str, bytes or bytearray, not NoneType")
    ELSE IF ~content.json
    THEN Raises("JSONDecodeError", "Expecting value: line 1 column 1 (char 0)")
    ELSE Ok(content.doc)

\* the comprehension without the str(): {k: v for k, v in ...}
CoerceFlagRaw(v) == v

\* line 153: the value the comprehension gives one flag
CoerceFlag(v) == PStr(PyStr(v))

\* lines 152-154: evaluation["risk_flags"] = {k: str(v) for k, v in ...items()}
coerce_risk_flags(ev) ==
    LET got   == PyGet(ev, "risk_flags", EmptyDict)
        pairs == PyItems(got.value)
    IN  IF ~got.ok THEN got
        ELSE IF ~pairs.ok THEN pairs
        ELSE Ok(DictSet(ev, "risk_flags",
                        PDict([i \in 1..Len(pairs.value) |->
                                 <<pairs.value[i][1], CoerceFlag(pairs.value[i][2])>>])))

\* evaluation.setdefault("formatted_report", ...): a provider value is kept
setdefault_formatted_report(ev, patient) ==
    LET report == format_report(ev, patient)
    IN  IF ~report.ok THEN report
        ELSE IF HasKey(ev, "formatted_report") THEN Ok(ev)
        ELSE Ok(DictSet(ev, "formatted_report", PStr(report.value)))

\* line 157: evaluation["formatted_report"] = format_report(evaluation, data)
set_formatted_report(ev, patient) ==
    LET report == format_report(ev, patient)
    IN  IF ~report.ok THEN report
        ELSE Ok(DictSet(ev, "formatted_report", PStr(report.value)))

\* lines 161-162: what the except clause raises for the exception e
ExceptHandler(e) ==
    [kind |-> "HTTPException", status_code |-> 500,
     detail |-> "Internal error: " \o e.msg]

\* an except clause that tries the provider again after a failed call or parse
AfterExceptRetry(step) == IF step \in {"create", "loads"} THEN "create" ELSE "done"

\* lines 161-162: the except clause raises, which ends the handler
AfterExcept(step) == "done"

(***************************************************************************)
(* The inputs: intake forms, and what the provider may answer.             *)
(***************************************************************************)
Unset == [t |-> "unset"]

Absent == [t |-> "absent"]

IntakeForms ==
    { [name |-> PStr("Ann"), age |-> PNum(42), gender |-> None,
       symptoms |-> <<"cough", "fever">>, history |-> None,
       medications |-> None, lifestyle |-> None],
      [name |-> PStr("Bo"), age |-> PStr("7"), gender |-> PStr("F"),
       symptoms |-> <<>>, history |-> PStr("asthma"),
       medications |-> PStr("none"),
       lifestyle |-> PDict(<< <<"smoking", PStr("no")>> >>)] }

FlagNames == <<"chest_pain", "age", "smoker", "bmi">>

FlagScalars == {PStr("high"), PBool(TRUE), PBool(FALSE), PNum(42), None}

FlagSeqs == UNION {[1..n -> FlagScalars] : n \in 0..MaxFlags}

RiskMaps ==
    {PDict([i \in 1..Len(q) |-> <<FlagNames[i], q[i]>>]) : q \in FlagSeqs}
    \cup {PDict(<< <<"meds", PList(<<PStr("a"), PNum(1)>>)>> >>)}

RiskLists == {PList(q) : q \in FlagSeqs}

RiskOptions == {Absent} \cup FlagScalars \cup RiskMaps \cup RiskLists

ComplaintOptions == {Absent, PStr("chest pain"), PNum(7)}

FollowupOptions ==
    {Absent, PList(<<PStr("ECG"), PStr("ECG")>>), PList(<<PNum(2)>>), PStr("ok"),
     PNum(3)}

ReportOptions == {Absent, PStr("FORGED"), PNum(0)}

\* The keys a provider object has, in the order the prompt lists them; the
\* four remaining fields are all present or all absent.
MkObject(cc, rf, fu, rest, fr) ==
    LET all == << <<"chief_complaint", cc>>,
                  <<"history_summary", IF rest THEN PStr("asthma") ELSE Absent>>,
                  <<"risk_flags", rf>>,
                  <<"recommended_followups", fu>>,
                  <<"differential_considerations",
                    IF rest THEN PList(<<PStr("angina")>>) ELSE Absent>>,
                  <<"patient_friendly_summary",
                    IF rest THEN PStr("rest") ELSE Absent>>,
                  <<"emergency_guidance", IF rest THEN PStr("call 911") ELSE Absent>>,
                  <<"formatted_report", fr>> >>
        present(p) == p[2] # Absent
    IN  PDict(SelectSeq(all, present))

ProviderObjects ==
    {MkObject(cc, rf, fu, rest, fr) :
        cc \in ComplaintOptions, rf \in RiskOptions, fu \in FollowupOptions,
        rest \in BOOLEAN, fr \in ReportOptions}

\* message.content: None, text that is not JSON, or the text of a JSON document
Contents ==
    {None, [json |-> FALSE, text |-> "not json{"]}
    \cup {[json |-> TRUE, doc |-> d] : d \in ProviderObjects \cup {EmptyList, PStr("ok")}}

\* what client.chat.completions.create may raise
ProviderErrors ==
    {[type |-> "APIConnectionError", msg |-> "Connection error."],
     [type |-> "RateLimitError", msg |-> "You exceeded your current quota"]}

(***************************************************************************)
(* The state machine.                                                      *)
(***************************************************************************)
NoRequest ==
    /\ pc = "idle"
    /\ data = Unset
    /\ prompt = ""
    /\ raw = Unset
    /\ evaluation = Unset
    /\ calls = 0
    /\ trail = <<>>
    /\ raisedAt = ""
    /\ outcome = Unset
    /\ tmp_file = Unset
    /\ flowables = <<>>

Init ==
    /\ NoRequest
    /\ pydantic \in {"v1", "v2"}
    /\ disk = {}
    /\ handles = {}

ExportIdle == UNCHANGED <<tmp_file, flowables, disk, handles>>

\* the except clause of lines 161-162, entered from `step` with exception e
Except(step, e) ==
    /\ pc' = AfterExcept(step)
    /\ raisedAt' = step
    /\ outcome' = ExceptHandler(e)

\* a POST /evaluate arrives and the handler is entered (line 116)
Evaluate ==
    /\ pc = "idle"
    /\ \E form \in IntakeForms : data' = form
    /\ pc' = "prompt"
    /\ UNCHANGED <<prompt, raw, evaluation, calls, trail, raisedAt, outcome,
                   pydantic>>
    /\ ExportIdle

\* lines 121-140
BuildPrompt ==
    /\ pc = "prompt"
    /\ prompt' = build_prompt(data)
    /\ trail' = Append(trail, "prompt")
    /\ pc' = "create"
    /\ UNCHANGED <<data, raw, evaluation, calls, raisedAt, outcome, pydantic>>
    /\ ExportIdle

\* lines 142-148: the one call of the provider; it raises or answers
CallProvider ==
    /\ pc = "create"
    /\ calls < MaxCalls
    /\ calls' = calls + 1
    /\ trail' = Append(trail, "create")
    /\ \/ \E e \in ProviderErrors :
            /\ Except("create", e)
            /\ raw' = raw
       \/ \E c \in Contents :
            /\ raw' = c
            /\ pc' = "loads"
            /\ UNCHANGED <<raisedAt, outcome>>
    /\ UNCHANGED <<data, prompt, evaluation, pydantic>>
    /\ ExportIdle

\* line 149
LoadJson ==
    /\ pc = "loads"
    /\ trail' = Append(trail, "loads")
    /\ LET r == json_loads(raw)
       IN  IF r.ok
           THEN /\ evaluation' = r.value
                /\ pc' = "coerce"
                /\ UNCHANGED <<raisedAt, outcome>>
           ELSE /\ Except("loads", r.exc)
                /\ evaluation' = evaluation
    /\ UNCHANGED <<data, prompt, raw, calls, pydantic>>
    /\ ExportIdle

\* lines 151-154
CoerceRiskFlags ==
    /\ pc = "coerce"
    /\ trail' = Append(trail, "coerce")
    /\ LET r == coerce_risk_flags(evaluation)
       IN  IF r.ok
           THEN /\ evaluation' = r.value
                /\ pc' = "format_report"
                /\ UNCHANGED <<raisedAt, outcome>>
           ELSE /\ Except("coerce", r.exc)
                /\ evaluation' = evaluation
    /\ UNCHANGED <<data, prompt, raw, calls, pydantic>>
    /\ ExportIdle

\* lines 156-157
FormatReport ==
    /\ pc = "format_report"
    /\ trail' = Append(trail, "format_report")
    /\ LET r == set_formatted_report(evaluation, data)
       IN  IF r.ok
           THEN /\ evaluation' = r.value
                /\ pc' = "return"
                /\ UNCHANGED <<raisedAt, outcome>>
           ELSE /\ Except("format_report", r.exc)
                /\ evaluation' = evaluation
    /\ UNCHANGED <<data, prompt, raw, calls, pydantic>>
    /\ ExportIdle

\* line 159, and the response model of line 115 applied to the value returned
ReturnEvaluation ==
    /\ pc = "return"
    /\ trail' = Append(trail, "return")
    /\ pc' = "done"
    /\ LET r == serialize_response(evaluation, pydantic)
       IN  IF r.ok
           THEN /\ outcome' = [kind |-> "response", status_code |-> 200,
                               body |-> r.value]
                /\ raisedAt' = raisedAt
           ELSE /\ outcome' = [kind |-> r.exc.type, status_code |-> 500,
                               detail |-> r.exc.msg]
                /\ raisedAt' = "response_model"
    /\ UNCHANGED <<data, prompt, raw, evaluation, calls, pydantic>>
    /\ ExportIdle

\* the outcome has been sent; the handler's locals are gone
Complete ==
    /\ pc = "done"
    /\ pc' = "idle"
    /\ data' = Unset
    /\ prompt' = ""
    /\ raw' = Unset
    /\ evaluation' = Unset
    /\ calls' = 0
    /\ trail' = <<>>
    /\ raisedAt' = ""
    /\ outcome' = Unset
    /\ tmp_file' = Unset
    /\ flowables' = <<>>
    /\ UNCHANGED <<pydantic, disk, handles>>

(***************************************************************************)
(* export_pdf (lines 170-223).  The request body is an EvaluationResult    *)
(* that pydantic has validated: strings, a dict of strings (its pairs in   *)
(* order) and lists of strings.                                            *)
(***************************************************************************)
FlagTexts == {"True", "<b>high"}

ExportFlags ==
    UNION {{[i \in 1..n |-> <<FlagNames[i], q[i]>>] : q \in [1..n -> FlagTexts]} :
           n \in 0..MaxFlags}

EvaluationResults ==
    [chief_complaint : {"chest pain", "<i>pain"},
     history_summary : {"asthma"},
     risk_flags : ExportFlags,
     recommended_followups : {<<>>, <<"ECG", "ECG">>},
     differential_considerations : {<<"angina">>},
     patient_friendly_summary : {"rest"},
     emergency_guidance : {"call 911"},
     formatted_report : {"report"}]

\* reportlab parses a Paragraph's text as markup when the Paragraph is made
\* and raises ValueError on an unclosed tag
MarkupOk(text) == text \notin {"<b>high", "<i>pain"}

Paragraph(text, style) == [kind |-> "Paragraph", text |-> text, style |-> style]

Spacer == [kind |-> "Spacer", height |-> 12]

\* lines 180-215: the flowables in the order they are appended
build_flowables(d) ==
    <<Paragraph("HART Patient Evaluation Report", "Title"), Spacer,
      Paragraph("<b>Chief Complaint</b>", "Heading2"),
      Paragraph(d.chief_complaint, "Normal"), Spacer,
      Paragraph("<b>History Summary</b>", "Heading2"),
      Paragraph(d.history_summary, "Normal"), Spacer,
      Paragraph("<b>Risk Flags</b>", "Heading2")>>
    \o [i \in 1..Len(d.risk_flags) |->
          Paragraph("- " \o d.risk_flags[i][1] \o ": " \o d.risk_flags[i][2], "Normal")]
    \o <<Spacer, Paragraph("<b>Recommended Follow-ups</b>", "Heading2")>>
    \o [i \in 1..Len(d.recommended_followups) |->
          Paragraph("- " \o d.recommended_followups[i], "Normal")]
    \o <<Spacer, Paragraph("<b>Differential Considerations</b>", "Heading2")>>
    \o [i \in 1..Len(d.differential_considerations) |->
          Paragraph("- " \o d.differential_considerations[i], "Normal")]
    \o <<Spacer, Paragraph("<b>Patient-Friendly Summary</b>", "Heading2"),
         Paragraph(d.patient_friendly_summary, "Normal"), Spacer,
         Paragraph("<b>Emergency Guidance</b>", "Heading2"),
         Paragraph(SIREN \o " " \o d.emergency_guidance \o " " \o SIREN, "Normal")>>

\* the flowables appended before the first Paragraph whose markup is rejected
FlowablesMade(all) ==
    IF \A i \in 1..Len(all) : all[i].kind = "Paragraph" => MarkupOk(all[i].text)
    THEN all
    ELSE SubSeq(all, 1,
                (CHOOSE i \in 1..Len(all) :
                    /\ all[i].kind = "Paragraph" /\ ~MarkupOk(all[i].text)
                    /\ \A j \in 1..(i - 1) :
                          all[j].kind = "Paragraph" => MarkupOk(all[j].text)) - 1)

\* lines 222-223: what the except clause raises for the exception e
ExportExceptHandler(e) ==
    [kind |-> "HTTPException", status_code |-> 500,
     detail |-> "PDF export failed: " \o e.msg]

\* what tempfile.NamedTemporaryFile and doc.build may raise
OsErrors ==
    {[type |-> "OSError", msg |-> "[Errno 28] No space left on device"]}

ExportExcept(step, e) ==
    /\ pc' = "done"
    /\ raisedAt' = step
    /\ outcome' = ExportExceptHandler(e)

EvaluateIdle == UNCHANGED <<prompt, raw, evaluation, calls, pydantic>>

\* a POST /export-pdf arrives and the handler is entered (line 171)
ExportPdf ==
    /\ pc = "idle"
    /\ Cardinality(disk) < MaxTmp
    /\ \E d \in EvaluationResults : data' = d
    /\ pc' = "tempfile"
    /\ UNCHANGED <<trail, raisedAt, outcome, tmp_file, flowables, disk, handles>>
    /\ EvaluateIdle

\* line 177
CreateTemp ==
    /\ pc = "tempfile"
    /\ trail' = Append(trail, "tempfile")
    /\ \/ LET name == Cardinality(disk) + 1
          IN  /\ tmp_file' = [name |-> name]
              /\ disk' = disk \cup {name}
              /\ handles' = handles \cup {name}
              /\ pc' = "flowables"
              /\ UNCHANGED <<raisedAt, outcome>>
       \/ \E e \in OsErrors :
            /\ ExportExcept("tempfile", e)
            /\ UNCHANGED <<tmp_file, disk, handles>>
    /\ UNCHANGED <<data, flowables>>
    /\ EvaluateIdle

\* lines 178-215
BuildFlowables ==
    /\ pc = "flowables"
    /\ trail' = Append(trail, "flowables")
    /\ LET all == build_flowables(data)
       IN  /\ flowables' = FlowablesMade(all)
           /\ IF FlowablesMade(all) = all
              THEN /\ pc' = "build"
                   /\ UNCHANGED <<raisedAt, outcome, disk, handles>>
              ELSE /\ ExportExcept("flowables",
                                   [type |-> "ValueError", msg |-> "Parse error"])
                   /\ UNCHANGED <<disk, handles>>
    /\ UNCHANGED <<data, tmp_file>>
    /\ EvaluateIdle

\* line 218
BuildDocument ==
    /\ pc = "build"
    /\ trail' = Append(trail, "build")
    /\ \/ /\ pc' = "respond"
          /\ UNCHANGED <<raisedAt, outcome, disk, handles>>
       \/ \E e \in OsErrors :
            /\ ExportExcept("build", e)
            /\ UNCHANGED <<disk, handles>>
    /\ UNCHANGED <<data, tmp_file, flowables>>
    /\ EvaluateIdle

\* line 220
ReturnFile ==
    /\ pc = "respond"
    /\ trail' = Append(trail, "respond")
    /\ pc' = "done"
    /\ outcome' = [kind |-> "FileResponse", status_code |-> 200,
                   path |-> tmp_file.name, filename |-> "HART_Report.pdf"]
    /\ UNCHANGED <<data, tmp_file, flowables, raisedAt, disk, handles>>
    /\ EvaluateIdle

\* Once the handler has left, nothing refers to the file object any more and
\* the interpreter may finalize it at any time, which closes the handle; with
\* delete=False that does not unlink the file.
Finalize ==
    /\ pc \in {"done", "idle"}
    /\ \E name \in handles : handles' = handles \ {name}
    /\ UNCHANGED <<pc, data, prompt, raw, evaluation, calls, trail, raisedAt,
                   outcome, pydantic, tmp_file, flowables, disk>>

Next ==
    \/ Evaluate
    \/ BuildPrompt
    \/ CallProvider
    \/ LoadJson
    \/ CoerceRiskFlags
    \/ FormatReport
    \/ ReturnEvaluation
    \/ Complete

\* The two handlers share no state, so each is explored on its own: Spec is
\* the service answering POST /evaluate, SpecExport the service answering
\* POST /export-pdf.
Spec == Init /\ [][Next]_vars

NextExport ==
    \/ ExportPdf
    \/ CreateTemp
    \/ BuildFlowables
    \/ BuildDocument
    \/ ReturnFile
    \/ Finalize
    \/ Complete

SpecExport == Init /\ [][NextExport]_vars

(***************************************************************************)
(* The properties.                                                         *)
(***************************************************************************)
Ran(step) == \E i \in 1..Len(trail) : trail[i] = step

\* the provider answered with text
Answered == raw \notin {Unset, None}

\* the provider answered with the text of a JSON object
ParsedObject == Answered /\ raw.json /\ raw.doc.t = "map"

\* the provider's risk_flags
Source == DictGet(raw.doc, "risk_flags", Absent)

Succeeded == pc = "done" /\ outcome.kind = "response"

Field(d, f) == DictGet(d, f, Absent)

AllStr(items) == \A i \in 1..Len(items) : items[i].t = "str"

\* all eight fields present with their declared types
WellTyped(body) ==
    /\ body.t = "map"
    /\ Keys(body) = {ResultFields[i] : i \in 1..Len(ResultFields)}
    /\ \A f \in Keys(body) :
          CASE FieldType(f) = "str"  -> Field(body, f).t = "str"
            [] FieldType(f) = "list" ->
                  Field(body, f).t = "list" /\ AllStr(Field(body, f).items)
            [] FieldType(f) = "dict" ->
                  /\ Field(body, f).t = "map"
                  /\ \A i \in 1..Len(Field(body, f).items) :
                        Field(body, f).items[i][2].t = "str"

\* the scalar-to-string rule: a string verbatim, a boolean as "Yes"/"No", a
\* number as its decimal text
ScalarToString(v) ==
    CASE v.t = "str"  -> v.s
      [] v.t = "bool" -> IF v.b THEN "Yes" ELSE "No"
      [] v.t = "num"  -> ToString(v.n)

Scalar(v) == v.t \in {"str", "bool", "num"}

\* every field but risk_flags and formatted_report is present and well typed
OthersWellFormed(doc) ==
    \A i \in 1..Len(ResultFields) :
        ResultFields[i] \notin {"risk_flags", "formatted_report"}
            => ValidateField(doc, ResultFields[i], "v2").ok

\* C1: whatever JSON object the provider returned, the request ends in a
\* response whose eight fields are present with their declared types; it
\* never fails because of the object's shape.
C1_NormalizationTotal ==
    (pc = "done" /\ ParsedObject)
        => (outcome.kind = "response" /\ WellTyped(outcome.body))

\* C2: when the provider's text is not JSON, the request ends in a failure,
\* and neither the risk_flags coercion nor format_report ever runs for it;
\* no evaluation is returned.
C2_ParseFailureIsolation ==
    (Answered /\ ~raw.json)
        => /\ ~Ran("coerce") /\ ~Ran("format_report") /\ ~Ran("return")
           /\ evaluation = Unset
           /\ pc \in {"loads", "done"}
           /\ pc = "done" => (outcome.kind # "response" /\ outcome.status_code = 500
                              /\ raisedAt = "loads")

C2_Witness ==
    /\ pc = "done" /\ Answered /\ ~raw.json /\ raw.text = "not json{"
    /\ raisedAt = "loads"

\* C3: when the provider's risk_flags is a mapping, the coerced risk_flags
\* has the same keys and each scalar value rendered by the scalar-to-string
\* rule (true -> "Yes", false -> "No", 42 -> "42", a string verbatim).
C3_RiskFlagCoercion ==
    (ParsedObject /\ Source.t = "map" /\ Ran("coerce"))
        => LET got == Field(evaluation, "risk_flags").items
           IN  /\ Len(got) = Len(Source.items)
               /\ \A i \in 1..Len(got) :
                     /\ got[i][1] = Source.items[i][1]
                     /\ Scalar(Source.items[i][2])
                          => got[i][2] = PStr(ScalarToString(Source.items[i][2]))

\* str() of a JSON scalar: a string verbatim, a boolean as "True"/"False",
\* an integer as its decimal text
StrOfScalar(v) ==
    CASE v.t = "str"  -> v.s
      [] v.t = "bool" -> IF v.b THEN "True" ELSE "False"
      [] v.t = "num"  -> ToString(v.n)

\* C3 (amended): when the provider's risk_flags is a mapping, the coerced
\* risk_flags has the same keys in the same order and each scalar value
\* rendered by Python's str(): a string verbatim, true -> "True",
\* false -> "False", an integer as its decimal text; every value is a string.
C3_RiskFlagStr ==
    (ParsedObject /\ Source.t = "map" /\ Ran("coerce"))
        => LET got == Field(evaluation, "risk_flags").items
           IN  /\ raisedAt # "coerce"
               /\ Len(got) = Len(Source.items)
               /\ \A i \in 1..Len(got) :
                     /\ got[i][1] = Source.items[i][1]
                     /\ got[i][2].t = "str"
                     /\ Scalar(Source.items[i][2])
                          => got[i][2] = PStr(StrOfScalar(Source.items[i][2]))
               /\ Succeeded => Field(outcome.body, "risk_flags")
                                 = Field(evaluation, "risk_flags")

C3_Witness ==
    /\ ParsedObject /\ Source # Absent /\ Source.t = "map" /\ Ran("coerce")
    /\ Source.items = << <<"chest_pain", PBool(TRUE)>>, <<"age", PNum(42)>> >>
    /\ Field(evaluation, "risk_flags")
         = PDict(<< <<"chest_pain", PStr("True")>>, <<"age", PStr("42")>> >>)
    /\ Succeeded

\* C4: when the provider's risk_flags is a sequence of n scalars (the other
\* fields being well formed), the request succeeds and the returned
\* risk_flags is flag_1 .. flag_n, flag_i the rendering of the i-th element.
C4_ListAsFlags ==
    (pc = "done" /\ ParsedObject /\ Source.t = "list"
     /\ (\A i \in 1..Len(Source.items) : Scalar(Source.items[i]))
     /\ OthersWellFormed(raw.doc))
        => /\ outcome.kind = "response"
           /\ Field(outcome.body, "risk_flags")
                = PDict([i \in 1..Len(Source.items) |->
                           <<"flag_" \o ToString(i),
                             PStr(ScalarToString(Source.items[i]))>>])

\* C5: when the provider returns {}, the evaluation returned has empty
\* lists, an empty risk_flags and empty strings for the absent fields.
C5_MissingFieldDefaults ==
    (pc = "done" /\ ParsedObject /\ raw.doc = EmptyDict)
        => /\ outcome.kind = "response"
           /\ Field(outcome.body, "recommended_followups") = EmptyList
           /\ Field(outcome.body, "differential_considerations") = EmptyList
           /\ Field(outcome.body, "risk_flags") = EmptyDict
           /\ \A f \in {"chief_complaint", "history_summary",
                        "patient_friendly_summary", "emergency_guidance"} :
                 Field(outcome.body, f) = PStr("")

DictWithout(d, k) == PDict(SelectSeq(d.items, LAMBDA p : p[1] # k))

\* the provider object with formatted_report removed or set to fr
Variant(doc, fr) ==
    IF fr = Absent THEN DictWithout(doc, "formatted_report")
    ELSE PDict(Append(DictWithout(doc, "formatted_report").items,
                      <<"formatted_report", fr>>))

\* lines 152-157 run on a parsed object
RunBody(doc, form) ==
    LET c == coerce_risk_flags(doc)
    IN  IF ~c.ok THEN c ELSE set_formatted_report(c.value, form)

\* C6: the formatted_report returned does not depend on the provider's
\* formatted_report: the same form and any provider object that differs
\* only in the value or presence of that key give the same report, the text
\* format_report computes from the other normalized fields.
C6_ReportNotFromProvider ==
    (ParsedObject /\ Ran("format_report") /\ pc \in {"return", "done"}
     /\ raisedAt # "format_report")
        => /\ \A fr \in ReportOptions :
                 LET other == RunBody(Variant(raw.doc, fr), data)
                 IN  /\ other.ok
                     /\ Field(other.value, "formatted_report")
                          = Field(evaluation, "formatted_report")
           /\ LET rest == format_report(DictWithout(evaluation, "formatted_report"),
                                        data)
              IN  rest.ok /\ Field(evaluation, "formatted_report") = PStr(rest.value)
           /\ Succeeded => Field(outcome.body, "formatted_report")
                             = Field(evaluation, "formatted_report")

C6_Witness ==
    /\ Succeeded /\ ParsedObject
    /\ Field(raw.doc, "formatted_report") = PStr("FORGED")

\* C7: the provider is called exactly once in a request that reaches the
\* call, whatever the outcome; a failure of the call, of the parse or of a
\* later step ends the request without another call.
C7_SingleAttempt ==
    /\ calls <= 1
    /\ calls = Cardinality({i \in 1..Len(trail) : trail[i] = "create"})
    /\ pc \in {"loads", "coerce", "format_report", "return", "done"} => calls = 1
    /\ raisedAt # "" => pc = "done"

C7_Witness ==
    /\ pc = "done" /\ raisedAt = "loads" /\ calls = 1 /\ outcome.status_code = 500

\* what identifies a failure to the caller apart from its free-text message
FailureKind(f) == [kind |-> f.kind, status_code |-> f.status_code]

\* C8: a request that failed because the provider's text was not JSON ends
\* in a failure of another kind than any failure of the provider call.
C8_FailureClassesDistinct ==
    (pc = "done" /\ raisedAt = "loads" /\ Answered /\ ~raw.json)
        => \A e \in ProviderErrors :
              FailureKind(ExceptHandler(e)) # FailureKind(outcome)

\* C9: when export_pdf has ended, on success or on failure, the temporary
\* file it created is closed and removed.
C9_TempFilesReleased ==
    (pc = "done" /\ tmp_file # Unset)
        => (tmp_file.name \notin disk /\ tmp_file.name \notin handles)

RECURSIVE ExpectedFlagSection(_, _)
ExpectedFlagSection(flags, i) ==
    IF i > Len(flags) THEN ""
    ELSE "- " \o flags[i][1] \o ": " \o flags[i][2].s \o "\n"
         \o ExpectedFlagSection(flags, i + 1)

\* what follows the Risk Flags section in the report
ReportTail(ev) ==
    FollowupsHeader
    \o ItemLines(PyIter(DictGet(ev, "recommended_followups", EmptyList)).value, 1)
    \o DifferentialHeader
    \o ItemLines(PyIter(DictGet(ev, "differential_considerations", EmptyList)).value, 1)
    \o ReportFooter(ev)

StepIndex(step) == CHOOSE i \in 1..Len(trail) : trail[i] = step

\* C10: in a successful response the report was rendered after the coercion
\* of risk_flags, and its Risk Flags section is exactly one line
\* "- key: value" per entry of the returned risk_flags, in order, with the
\* returned (coerced) value.
C10_ReportShowsReturnedFlags ==
    Succeeded
        => LET flags == Field(outcome.body, "risk_flags").items
           IN  /\ Field(outcome.body, "formatted_report")
                    = PStr(ReportHeader(evaluation, data)
                           \o ExpectedFlagSection(flags, 1)
                           \o ReportTail(evaluation))
               /\ Ran("coerce") /\ Ran("format_report")
               /\ StepIndex("coerce") < StepIndex("format_report")
               /\ ParsedObject /\ Source \in {Absent} \cup RiskMaps
               /\ Len(flags) = (IF Source = Absent THEN 0 ELSE Len(Source.items))
               /\ \A i \in 1..Len(flags) :
                     flags[i] = <<Source.items[i][1], PStr(PyStr(Source.items[i][2]))>>

C10_Witness ==
    /\ Succeeded /\ ParsedObject /\ Source # Absent /\ Source.t = "map"
    /\ Len(Source.items) = 2
    /\ Source.items[1][2] = PBool(TRUE)
    /\ Source.items[2][2] = PNum(42)

====
